---- MODULE Spec2Model ----
(***************************************************************************)
(* KO2Pathway.py: one invocation of main() after another, sharing the      *)
(* cache file on disk.  Strings that the program slices or matches are     *)
(* modelled as sequences of one-character strings; a data frame is a       *)
(* record of its column names and its rows; a tab-separated file is a      *)
(* sequence of lines, each a sequence of fields.                           *)
(***************************************************************************)
EXTENDS Integers, Sequences, FiniteSets, TLC

\* ---------------------------------------------------------------- bounds
MaxRows == 2        \* rows of the normalized input (the 'ko' column)
MaxLines == 2       \* lines in one pathway-link response body

\* ------------------------------------------------------- program constants
TopN == 20          \* summary_df.head(20)

\* ------------------------------------------------------------ input pools
Codes == {"K00001", "K00002"}
PathwayNums == {10, 20}

\* a path on disk: does it exist, and the lines in it
Absent == [exists |-> FALSE, lines |-> << >>]
File(lines) == [exists |-> TRUE, lines |-> lines]
NoError == "none"

\* "Unknown", the literal of line 61
Unknown == <<"U", "n", "k", "n", "o", "w", "n">>
\* descriptions the list service may answer with
DescPool == { <<"M", "e", "t", "a">> }
\* contents of the exclusion file, line by line
ExcludeFiles ==
  { << <<" ">> >>,
    << <<" ", "M", "E", "T", " ">>, << >> >>,
    << <<"k", ".", "o">>, <<"z">> >> }

\* ----------------------------------------------------------- sequences
RECURSIVE Unique(_)
\* Series.unique(): distinct values in order of first appearance
Unique(s) ==
  IF s = << >> THEN << >>
  ELSE LET r == Unique(SubSeq(s, 1, Len(s) - 1))
           x == s[Len(s)]
       IN IF \E k \in 1..Len(r) : r[k] = x THEN r ELSE Append(r, x)

Range(s) == { s[k] : k \in 1..Len(s) }

\* ------------------------------------------------------------- strings
Lower(c) ==
  CASE c = "M" -> "m" [] c = "G" -> "g" [] c = "L" -> "l" [] c = "U" -> "u"
    [] c = "E" -> "e" [] c = "T" -> "t" [] OTHER -> c

LowerStr(s) == [k \in 1..Len(s) |-> Lower(s[k])]

RECURSIVE Strip(_)
\* str.strip(): leading and trailing blanks removed
Strip(s) ==
  IF s = << >> THEN s
  ELSE IF s[1] = " " THEN Strip(Tail(s))
  ELSE IF s[Len(s)] = " " THEN Strip(SubSeq(s, 1, Len(s) - 1))
  ELSE s

RECURSIVE Join(_)
\* '|'.join(terms)
Join(terms) ==
  IF terms = << >> THEN << >>
  ELSE IF Len(terms) = 1 THEN terms[1]
  ELSE terms[1] \o <<"|">> \o Join(Tail(terms))

RECURSIVE Alternatives(_)
\* the branches of a regular expression, cut at every '|'
Alternatives(p) ==
  IF \E k \in 1..Len(p) : p[k] = "|"
  THEN LET k == CHOOSE k \in 1..Len(p) :
                  p[k] = "|" /\ \A m \in 1..(k - 1) : p[m] # "|"
       IN <<SubSeq(p, 1, k - 1)>> \o Alternatives(SubSeq(p, k + 1, Len(p)))
  ELSE <<p>>

\* branch a matches s at position pos; '.' matches any character
MatchAt(a, s, pos) ==
  /\ pos + Len(a) - 1 <= Len(s)
  /\ \A k \in 1..Len(a) : a[k] = "." \/ a[k] = s[pos + k - 1]

\* re.search(p, s) is not None
RegexSearch(p, s) ==
  \E a \in Range(Alternatives(p)) : \E pos \in 1..(Len(s) + 1) : MatchAt(a, s, pos)

\* t in s, the literal substring test
Substring(t, s) ==
  \E pos \in 1..(Len(s) + 1) :
    /\ pos + Len(t) - 1 <= Len(s)
    /\ \A k \in 1..Len(t) : t[k] = s[pos + k - 1]

\* --------------------------------------------------------- data frames
\* pd.DataFrame(records): a frame of no records has no columns at all
DataFrame(recs) ==
  [columns |-> IF recs = << >> THEN << >> ELSE <<"ko", "pathway_id">>,
   rows |-> recs]

\* DataFrame.to_csv(path, sep='\t', index=False): the header line, then one
\* line per row; the header of a frame without columns is an empty line
ToCsv(df) ==
  <<df.columns>> \o [k \in 1..Len(df.rows) |-> <<df.rows[k].ko, df.rows[k].pathway_id>>]

\* pd.read_csv raises EmptyDataError on a file with nothing but blank lines
ReadCsvFails(file) == \A k \in 1..Len(file) : file[k] = << >>

\* pd.read_csv(path, sep='\t'): first line names the columns
ReadCsv(file) ==
  [columns |-> file[1],
   rows |-> [k \in 1..(Len(file) - 1) |->
               [ko |-> file[k + 1][1], pathway_id |-> file[k + 1][2]]]]

\* ------------------------------------------------ the two lookup services
\* second field of a pathway-link line: "path:" or nothing, a namespace, a number
PwField(pre, ns, num) == [pre |-> pre, ns |-> ns, num |-> num]

LinkLines(ko) ==
  { <<ko, PwField("path:", "map", n)>> : n \in PathwayNums }
    \cup { <<ko, PwField("path:", "ko", n)>> : n \in {10} }
    \cup { <<ko>> }

Bodies(lines, maxlen) == UNION { [1..n -> lines] : n \in 0..maxlen }

LinkResponses(ko) ==
  { [status |-> 200, body |-> b] : b \in Bodies(LinkLines(ko), MaxLines) }
    \cup { [status |-> 404, body |-> << >>] }

\* r.text.strip().split("\t") of a description response
DescResponses(pw) ==
  { [status |-> 404, body |-> << >>],
    [status |-> 200, body |-> << >>],
    [status |-> 200, body |-> <<pw>>] }
    \cup { [status |-> 200, body |-> <<pw, d>>] : d \in DescPool }

\* r.status_code == 200 and r.text.strip()
Succeeded(r) == r.status = 200 /\ r.body # << >>

\* parts[1].replace("path:", "")
StripPathPrefix(f) == [f EXCEPT !.pre = ""]

\* pw.startswith("map")
StartsWithMap(f) == f.pre = "" /\ f.ns = "map"

RECURSIVE ParseLinkBody(_, _)
\* lines 39-44: the records one response body contributes
ParseLinkBody(ko, body) ==
  IF body = << >> THEN << >>
  ELSE LET parts == body[1]
           pw == StripPathPrefix(parts[2])
           rest == ParseLinkBody(ko, Tail(body))
       IN IF Len(parts) = 2 /\ StartsWithMap(pw)
          THEN <<[ko |-> ko, pathway_id |-> pw]>> \o rest
          ELSE rest

\* lines 38-44
LinkRecords(ko, r) == IF Succeeded(r) THEN ParseLinkBody(ko, r.body) ELSE << >>

\* ------------------------------------------------------------ aggregation
RECURSIVE SortedNums(_)
SortedNums(S) ==
  IF S = {} THEN << >>
  ELSE LET m == CHOOSE x \in S : \A y \in S : x <= y
       IN <<m>> \o SortedNums(S \ {m})

\* lines 139-146: map the descriptions, group on (pathway_id, description) in
\* key order, count the rows of each group
GroupBySize(rows, dmap) ==
  LET nums == SortedNums({ rows[k].pathway_id.num : k \in 1..Len(rows) })
      pid(n) == PwField("", "map", n)
  IN [g \in 1..Len(nums) |->
        [pathway_id |-> pid(nums[g]),
         pathway_description |-> dmap[pid(nums[g])],
         KO_count |-> Cardinality({ k \in 1..Len(rows) : rows[k].pathway_id = pid(nums[g]) })]]

RECURSIVE SelectSeq2(_, _)
SelectSeq2(s, keep) ==
  IF s = << >> THEN << >>
  ELSE IF keep[1] THEN <<s[1]>> \o SelectSeq2(Tail(s), Tail(keep))
  ELSE SelectSeq2(Tail(s), Tail(keep))

\* line 151
ExcludeTerms(lines) ==
  LET kept == SelectSeq2(lines, [k \in 1..Len(lines) |-> Strip(lines[k]) # << >>])
  IN [k \in 1..Len(kept) |-> LowerStr(Strip(kept[k]))]

\* Series.str.lower().str.contains(pattern): pattern is a regular expression
StrContains(desc, pattern) == RegexSearch(pattern, LowerStr(desc))

\* lines 152-153
ExcludeFilter(table, terms) ==
  SelectSeq2(table, [k \in 1..Len(table) |->
                       ~StrContains(table[k].pathway_description, Join(terms))])

\* keep='last' in place of keep='first'
DropDuplicatesKeepLast(table) ==
  SelectSeq2(table, [k \in 1..Len(table) |->
    \A m \in (k + 1)..Len(table) :
      table[m].pathway_description # table[k].pathway_description])

\* line 155: drop_duplicates(subset='pathway_description', keep='first')
DropDuplicates(table) ==
  SelectSeq2(table, [k \in 1..Len(table) |->
    \A m \in 1..(k - 1) : table[m].pathway_description # table[k].pathway_description])

\* line 156: sort_values(by="KO_count", ascending=False) with the default
\* kind='quicksort', which does not promise an order among equal counts
SortOutcomes(table) ==
  LET n == Len(table)
      perms == { p \in [1..n -> 1..n] : \A a, b \in 1..n : a # b => p[a] # p[b] }
  IN { [k \in 1..n |-> table[p[k]]] : p \in
         { q \in perms : \A k \in 1..(n - 1) :
                           table[q[k]].KO_count >= table[q[k + 1]].KO_count } }

\* summary_df.head(20)
HeadRows(table, n) == SubSeq(table, 1, IF Len(table) < n THEN Len(table) ELSE n)

\* ------------------------------------------------------------------ state
\* cacheFile is the file at the cache location of the command line; the runs of
\* one behaviour are the invocations that name this location (or all name none).
\* args.exclude and args.plot are drawn where main first reads them.
VARIABLES
  cacheFile,        \* the file at args.cache: Absent, or its lines
  outputFile,       \* the file at args.output
  plotFile,         \* the file at args.plotfile
  args_cache,       \* args.cache, is a cache location given
  args_exclude,     \* args.exclude, is an exclusion file given (read at line 149)
  args_plot,        \* args.plot (read at line 163)
  ko_list,          \* main, line 133: the distinct codes of the normalized input
  pc,               \* where the run stands
  error,            \* the exception that ended the run, if any
  idx,              \* items the running loop has taken so far
  records,          \* fetch_ko_pathway_mapping, line 34
  pathway_df,       \* main, line 134
  unique_pathways,  \* main, line 137
  desc_map,         \* fetch_pathway_descriptions, line 53
  exclude_terms,    \* main, line 151
  grouped,          \* summary_df after line 146
  filtered,         \* summary_df after line 153
  deduped,          \* summary_df after line 155
  summary_df,       \* summary_df after line 156
  cacheAtStart,     \* history: the cache file when the run began
  lastWritten,      \* history: the frame of the last completed cache write
  writtenFor,       \* history: the codes of the run that wrote it
  linkRequests,     \* history: pathway-link requests of this run
  requests,         \* history: external requests of this run
  sinceRequest,     \* history: "none", "pending" (no sleep yet) or "slept"
  lastFailed        \* history: did the latest request fail

vars ==
  <<cacheFile, outputFile, plotFile, args_cache, args_exclude, args_plot, ko_list, pc, error, idx, records,
    pathway_df, unique_pathways, desc_map, exclude_terms, grouped, filtered, deduped,
    summary_df, cacheAtStart, lastWritten, writtenFor, linkRequests, requests,
    sinceRequest, lastFailed>>

disk == <<cacheFile, lastWritten, writtenFor>>
inputs == <<args_cache, ko_list, cacheAtStart>>
tables == <<args_exclude, args_plot, exclude_terms, grouped, filtered, deduped, summary_df>>
artifacts == <<outputFile, plotFile>>
history == <<linkRequests, requests, sinceRequest, lastFailed>>

\* the 'ko' column of preprocess_input's frame: codes, row after row
Inputs == UNION { [1..n -> Codes] : n \in 0..MaxRows }

Terminal == {"done", "crashed", "interrupted"}

EmptyFrame == [columns |-> << >>, rows |-> << >>]
NothingWritten == [done |-> FALSE, frame |-> EmptyFrame]

\* lines 127-133: the arguments are parsed, the input is normalized
Init ==
  /\ cacheFile = Absent
  /\ lastWritten = NothingWritten
  /\ writtenFor = << >>
  /\ cacheAtStart = Absent
  /\ outputFile = Absent
  /\ plotFile = Absent
  /\ args_cache \in BOOLEAN
  /\ args_exclude = FALSE
  /\ args_plot = FALSE
  /\ \E ko_df \in Inputs : ko_list = Unique(ko_df)
  /\ pc = "fetch"
  /\ error = NoError
  /\ idx = 0
  /\ records = << >>
  /\ pathway_df = EmptyFrame
  /\ unique_pathways = << >>
  /\ desc_map = << >>
  /\ exclude_terms = << >>
  /\ grouped = << >>
  /\ filtered = << >>
  /\ deduped = << >>
  /\ summary_df = << >>
  /\ linkRequests = 0
  /\ requests = 0
  /\ sinceRequest = "none"
  /\ lastFailed = FALSE

\* the process is gone: nothing of its memory is left
Forget ==
  /\ idx' = 0
  /\ records' = << >>
  /\ pathway_df' = EmptyFrame
  /\ unique_pathways' = << >>
  /\ desc_map' = << >>
  /\ exclude_terms' = << >>
  /\ grouped' = << >>
  /\ filtered' = << >>
  /\ deduped' = << >>
  /\ summary_df' = << >>

Crash(e) == pc' = "crashed" /\ error' = e

\* an external request was sent and answered by r
Requested(r) ==
  /\ requests' = requests + 1
  /\ sinceRequest' = "pending"
  /\ lastFailed' = ~Succeeded(r)

\* ------------------------------------------- fetch_ko_pathway_mapping
\* a cache without data rows taken for no cache at all
CacheHitNeedsRows(cache_file, file) == cache_file /\ file.exists /\ Len(file.lines) > 1

\* line 29
CacheHit(cache_file, file) == cache_file /\ file.exists

\* lines 29-31, read_csv succeeds
LoadCache ==
  /\ pc = "fetch"
  /\ CacheHit(args_cache, cacheFile)
  /\ ~ReadCsvFails(cacheFile.lines)
  /\ pathway_df' = ReadCsv(cacheFile.lines)
  /\ pc' = "unique"
  /\ UNCHANGED <<disk, inputs, tables, artifacts, history, error, idx, records,
                 unique_pathways, desc_map>>

\* lines 29-31, read_csv raises
LoadCacheFails ==
  /\ pc = "fetch"
  /\ CacheHit(args_cache, cacheFile)
  /\ ReadCsvFails(cacheFile.lines)
  /\ Crash("EmptyDataError")
  /\ UNCHANGED <<disk, inputs, tables, artifacts, history, idx, records, pathway_df,
                 unique_pathways, desc_map>>

\* lines 32-34
BeginLive ==
  /\ pc = "fetch"
  /\ ~CacheHit(args_cache, cacheFile)
  /\ records' = << >>
  /\ idx' = 0
  /\ pc' = "link"
  /\ UNCHANGED <<disk, inputs, tables, artifacts, history, error, pathway_df,
                 unique_pathways, desc_map>>

\* the sleep moved into the if of line 38
SleepOnlyOnSuccess(r) == IF Succeeded(r) THEN "link_sleep" ELSE "link"

\* line 45 comes after the if of line 38, whatever the response
AfterLinkRequest(r) == "link_sleep"

\* lines 35-44: one request and the records it yields
LinkRequest ==
  /\ pc = "link"
  /\ idx < Len(ko_list)
  /\ \E r \in LinkResponses(ko_list[idx + 1]) :
       /\ records' = records \o LinkRecords(ko_list[idx + 1], r)
       /\ pc' = AfterLinkRequest(r)
       /\ Requested(r)
  /\ idx' = idx + 1
  /\ linkRequests' = linkRequests + 1
  /\ UNCHANGED <<disk, inputs, tables, artifacts, error, pathway_df,
                 unique_pathways, desc_map>>

\* line 45
LinkSleep ==
  /\ pc = "link_sleep"
  /\ sinceRequest' = "slept"
  /\ pc' = "link"
  /\ UNCHANGED <<disk, inputs, tables, artifacts, error, idx, records, pathway_df,
                 unique_pathways, desc_map, linkRequests, requests, lastFailed>>

\* lines 46-47
LinkDone ==
  /\ pc = "link"
  /\ idx = Len(ko_list)
  /\ pathway_df' = DataFrame(records)
  /\ pc' = IF args_cache THEN "write" ELSE "unique"
  /\ UNCHANGED <<disk, inputs, tables, artifacts, history, error, idx, records,
                 unique_pathways, desc_map>>

\* line 48, to_csv opens the path for writing: the file is there, and empty
CacheOpen ==
  /\ pc = "write"
  /\ cacheFile' = File(<< >>)
  /\ idx' = 0
  /\ pc' = "writing"
  /\ UNCHANGED <<lastWritten, writtenFor, inputs, tables, artifacts, history, error,
                 records, pathway_df, unique_pathways, desc_map>>

\* line 48, to_csv writes into that file, line after line
CacheWriteLine ==
  /\ pc = "writing"
  /\ idx < Len(ToCsv(pathway_df))
  /\ cacheFile' = File(Append(cacheFile.lines, ToCsv(pathway_df)[idx + 1]))
  /\ idx' = idx + 1
  /\ UNCHANGED <<lastWritten, writtenFor, inputs, tables, artifacts, history, error,
                 pc, records, pathway_df, unique_pathways, desc_map>>

\* lines 48-50, to_csv returns
CacheClose ==
  /\ pc = "writing"
  /\ idx = Len(ToCsv(pathway_df))
  /\ lastWritten' = [done |-> TRUE, frame |-> pathway_df]
  /\ writtenFor' = ko_list
  /\ pc' = "unique"
  /\ UNCHANGED <<cacheFile, inputs, tables, artifacts, history, error, idx, records,
                 pathway_df, unique_pathways, desc_map>>

\* ------------------------------------------------------------------ main
HasColumn(df, c) == \E k \in 1..Len(df.columns) : df.columns[k] = c

\* line 137, the frame has a pathway_id column
UniquePathways ==
  /\ pc = "unique"
  /\ HasColumn(pathway_df, "pathway_id")
  /\ unique_pathways' = Unique([k \in 1..Len(pathway_df.rows) |->
                                  pathway_df.rows[k].pathway_id])
  /\ desc_map' = << >>
  /\ idx' = 0
  /\ pc' = "desc"
  /\ UNCHANGED <<disk, inputs, tables, artifacts, history, error, records, pathway_df>>

\* line 137, it has none
UniquePathwaysFails ==
  /\ pc = "unique"
  /\ ~HasColumn(pathway_df, "pathway_id")
  /\ Crash("KeyError")
  /\ UNCHANGED <<disk, inputs, tables, artifacts, history, idx, records, pathway_df,
                 unique_pathways, desc_map>>

\* --------------------------------------------- fetch_pathway_descriptions
\* line 58 indexes the second field of the body
SecondFieldMissing(r) == Succeeded(r) /\ Len(r.body) < 2

\* lines 57-61
Description(r) == IF Succeeded(r) THEN r.body[2] ELSE Unknown

\* line 62 comes after the if of line 57, whatever the response
AfterDescRequest(r) == "desc_sleep"

\* lines 54-61, the entry is stored
DescRequest ==
  /\ pc = "desc"
  /\ idx < Len(unique_pathways)
  /\ \E r \in DescResponses(unique_pathways[idx + 1]) :
       /\ ~SecondFieldMissing(r)
       /\ desc_map' = (unique_pathways[idx + 1] :> Description(r)) @@ desc_map
       /\ pc' = AfterDescRequest(r)
       /\ Requested(r)
  /\ idx' = idx + 1
  /\ UNCHANGED <<disk, inputs, tables, artifacts, error, records, pathway_df,
                 unique_pathways, linkRequests>>

\* lines 54-58, line 58 raises
DescRequestFails ==
  /\ pc = "desc"
  /\ idx < Len(unique_pathways)
  /\ \E r \in DescResponses(unique_pathways[idx + 1]) :
       /\ SecondFieldMissing(r)
       /\ Requested(r)
  /\ idx' = idx + 1
  /\ Crash("IndexError:58")
  /\ UNCHANGED <<disk, inputs, tables, artifacts, records, pathway_df,
                 unique_pathways, desc_map, linkRequests>>

\* line 62
DescSleep ==
  /\ pc = "desc_sleep"
  /\ sinceRequest' = "slept"
  /\ pc' = "desc"
  /\ UNCHANGED <<disk, inputs, tables, artifacts, error, idx, records, pathway_df,
                 unique_pathways, desc_map, linkRequests, requests, lastFailed>>

\* line 63
DescDone ==
  /\ pc = "desc"
  /\ idx = Len(unique_pathways)
  /\ pc' = "summarize"
  /\ UNCHANGED <<disk, inputs, tables, artifacts, history, error, idx, records,
                 pathway_df, unique_pathways, desc_map>>

\* ------------------------------------------------------ main, lines 139-165
SummaryCsv(table) ==
  <<<<"pathway_id", "pathway_description", "KO_count">>>> \o
    [k \in 1..Len(table) |->
       <<table[k].pathway_id, table[k].pathway_description, table[k].KO_count>>]

\* lines 139-160: aggregate, filter, deduplicate, rank, save
Summarize ==
  /\ pc = "summarize"
  /\ args_exclude' \in BOOLEAN
  /\ args_plot' \in BOOLEAN
  /\ grouped' = GroupBySize(pathway_df.rows, desc_map)
  /\ IF args_exclude'
     THEN \E f \in ExcludeFiles :
            /\ exclude_terms' = ExcludeTerms(f)
            /\ filtered' = ExcludeFilter(grouped', exclude_terms')
     ELSE /\ exclude_terms' = << >>
          /\ filtered' = grouped'
  /\ deduped' = DropDuplicates(filtered')
  /\ summary_df' \in SortOutcomes(deduped')
  /\ outputFile' = File(SummaryCsv(summary_df'))
  /\ pc' = IF args_plot' THEN "plot" ELSE "done"
  /\ UNCHANGED <<disk, inputs, plotFile, history, error, idx, records, pathway_df,
                 unique_pathways, desc_map>>

\* lines 66-67, the bars handed to the chart
Bars(table) ==
  [k \in 1..Len(table) |-> <<table[k].pathway_description, table[k].KO_count>>]

\* lines 164-165 and 66-110, the chart is drawn
Plot ==
  /\ pc = "plot"
  /\ HeadRows(summary_df, TopN) # << >>
  /\ plotFile' = File(Bars(HeadRows(summary_df, TopN)))
  /\ pc' = "done"
  /\ UNCHANGED <<disk, inputs, tables, outputFile, history, error, idx, records,
                 pathway_df, unique_pathways, desc_map>>

\* lines 164-165 and 66-70, counts[0] of an empty array raises
PlotFails ==
  /\ pc = "plot"
  /\ HeadRows(summary_df, TopN) = << >>
  /\ Crash("IndexError:70")
  /\ UNCHANGED <<disk, inputs, tables, artifacts, history, idx, records, pathway_df,
                 unique_pathways, desc_map>>

\* ------------------------------------------------------------ the operator
\* the process is interrupted, wherever it stands
Interrupt ==
  /\ pc \notin Terminal
  /\ pc' = "interrupted"
  /\ Forget
  /\ linkRequests' = 0
  /\ requests' = 0
  /\ sinceRequest' = "none"
  /\ lastFailed' = FALSE
  /\ UNCHANGED <<disk, inputs, args_exclude, args_plot, artifacts, error>>

\* the program is invoked again: lines 127-133
NewRun ==
  /\ pc \in Terminal
  /\ args_exclude' = FALSE
  /\ args_plot' = FALSE
  /\ \E ko_df \in Inputs : ko_list' = Unique(ko_df)
  /\ cacheAtStart' = cacheFile
  /\ pc' = "fetch"
  /\ error' = NoError
  /\ Forget
  /\ outputFile' = Absent
  /\ plotFile' = Absent
  /\ linkRequests' = 0
  /\ requests' = 0
  /\ sinceRequest' = "none"
  /\ lastFailed' = FALSE
  /\ UNCHANGED <<disk, args_cache>>

Next ==
  \/ LoadCache
  \/ LoadCacheFails
  \/ BeginLive
  \/ LinkRequest
  \/ LinkSleep
  \/ LinkDone
  \/ CacheOpen
  \/ CacheWriteLine
  \/ CacheClose
  \/ UniquePathways
  \/ UniquePathwaysFails
  \/ DescRequest
  \/ DescRequestFails
  \/ DescSleep
  \/ DescDone
  \/ Summarize
  \/ Plot
  \/ PlotFails
  \/ Interrupt
  \/ NewRun

Spec == Init /\ [][Next]_vars

\* ================================================================ claims
\* fetch_ko_pathway_mapping has returned to main
Fetched ==
  \/ pc \in {"unique", "desc", "desc_sleep", "summarize", "plot", "done"}
  \/ pc = "crashed" /\ error # "EmptyDataError"

\* line 159 has been executed
Summarized == pc \in {"plot", "done"} \/ (pc = "crashed" /\ error = "IndexError:70")

\* the data lines of a cache file that carry code ko, as edges
CachedEdges(file, ko) ==
  LET data == SelectSeq2(Tail(file.lines),
                         [k \in 1..(Len(file.lines) - 1) |-> file.lines[k + 1][1] = ko])
  IN [k \in 1..Len(data) |-> [ko |-> data[k][1], pathway_id |-> data[k][2]]]

\* the rows of a frame that carry code ko
EdgesOf(df, ko) ==
  SelectSeq2(df.rows, [k \in 1..Len(df.rows) |-> df.rows[k].ko = ko])

InCache(file, ko) == file.exists /\ CachedEdges(file, ko) # << >>

\* C1: when a cache location is given and the cache file exists as the run
\* begins, the run sends no pathway-link request, and once the resolver has
\* returned, each requested code found in the cache has exactly its cached edges.
C1_CacheServesWithoutRequests ==
  (args_cache /\ cacheAtStart.exists) =>
    /\ linkRequests = 0
    /\ Fetched => \A ko \in Range(ko_list) :
         InCache(cacheAtStart, ko) => EdgesOf(pathway_df, ko) = CachedEdges(cacheAtStart, ko)

\* a finished run served from a cache that holds one requested code and lacks another
C1_Witness ==
  /\ pc = "done"
  /\ args_cache
  /\ cacheAtStart.exists
  /\ linkRequests = 0
  /\ \E ko \in Range(ko_list) : InCache(cacheAtStart, ko)
  /\ \E ko \in Range(ko_list) : ~InCache(cacheAtStart, ko)

\* C2: after a live pass has written its edge set to the cache, a later run with
\* the same codes and the same cache location loads exactly that edge set, the
\* empty one included, and sends no pathway-link request.
C2_CacheRoundTrip ==
  (/\ lastWritten.done
   /\ args_cache
   /\ cacheAtStart.exists
   /\ ko_list = writtenFor
   /\ pc \notin {"fetch", "interrupted"}) =>
    /\ error # "EmptyDataError"
    /\ pathway_df.rows = lastWritten.frame.rows
    /\ linkRequests = 0

\* C3: whenever the process is at rest, interrupted or ended, the cache file is
\* absent or holds exactly the last completely written edge set.
C3_CacheNeverHalfWritten ==
  pc \in Terminal =>
    \/ ~cacheFile.exists
    \/ lastWritten.done /\ cacheFile.lines = ToCsv(lastWritten.frame)

\* C4: every row of the final summary counts the distinct codes of the normalized
\* input that are mapped to the row's pathway.
C4_CountIsDistinctInputCodes ==
  Summarized =>
    \A g \in 1..Len(summary_df) :
      summary_df[g].KO_count =
        Cardinality({ ko \in Range(ko_list) :
          \E k \in 1..Len(pathway_df.rows) :
            /\ pathway_df.rows[k].ko = ko
            /\ pathway_df.rows[k].pathway_id = summary_df[g].pathway_id })

\* the description requests sent so far have been answered
DescribedSoFar ==
  \/ pc \in {"desc", "desc_sleep", "summarize", "plot", "done"}
  \/ pc = "crashed" /\ error \in {"IndexError:58", "IndexError:70"}

\* C5: every pathway_id whose description was requested is a key of the result,
\* whatever the lookup service answered.
C5_DescriptionsTotal ==
  DescribedSoFar => \A k \in 1..idx : unique_pathways[k] \in DOMAIN desc_map

\* C6: an empty result is no error: a run without any edge does not fail at
\* line 137, and a requested chart of an empty summary does not fail.
C6_EmptyResultEndsNormally ==
  /\ (pc = "crashed" /\ error = "KeyError") => pathway_df.rows # << >>
  /\ (pc = "crashed" /\ error = "IndexError:70") => summary_df # << >>

\* C7: with an exclusion file, a group is dropped exactly when its lower-cased
\* description contains one of the file's terms as a literal substring.
C7_ExclusionIsLiteralSubstring ==
  (Summarized /\ args_exclude) =>
    \A g \in 1..Len(grouped) :
      (grouped[g] \notin Range(filtered)) <=>
        \E t \in Range(exclude_terms) :
          Substring(t, LowerStr(grouped[g].pathway_description))

\* C8: the final summary is the deduplicated table in non-increasing KO_count
\* order, a permutation of it, rows of equal count in their incoming order.
C8_RankingStableDescending ==
  Summarized =>
    \E p \in [1..Len(deduped) -> 1..Len(deduped)] :
      /\ Len(summary_df) = Len(deduped)
      /\ \A a, b \in 1..Len(deduped) : a # b => p[a] # p[b]
      /\ \A k \in 1..Len(deduped) : summary_df[k] = deduped[p[k]]
      /\ \A a, b \in 1..Len(deduped) :
           a < b => \/ summary_df[a].KO_count > summary_df[b].KO_count
                    \/ /\ summary_df[a].KO_count = summary_df[b].KO_count
                       /\ p[a] < p[b]

\* C9: no external request is sent while the request before it has not been
\* followed by the delay.
C9_DelayBetweenRequests ==
  [][requests' = requests + 1 => sinceRequest # "pending"]_vars

\* a description request that failed after the link requests, and its delay
C9_Witness ==
  /\ linkRequests >= 1
  /\ requests > linkRequests + 1
  /\ lastFailed
  /\ sinceRequest = "slept"

\* position of the first row of a table that carries description d
FirstWith(table, d) ==
  CHOOSE k \in 1..Len(table) :
    /\ table[k].pathway_description = d
    /\ \A m \in 1..(k - 1) : table[m].pathway_description # d

\* C10: after deduplication no two rows share a description, and the row kept
\* for a description that survives the filter is the first row with that
\* description in the grouping order of line 143.
C10_DedupKeepsFirstGrouped ==
  Summarized =>
    /\ \A a, b \in 1..Len(summary_df) :
         a # b => summary_df[a].pathway_description # summary_df[b].pathway_description
    /\ \A f \in 1..Len(filtered) :
         LET d == filtered[f].pathway_description
         IN /\ grouped[FirstWith(grouped, d)] \in Range(deduped)
            /\ grouped[FirstWith(grouped, d)] \in Range(summary_df)
            /\ \A a \in 1..Len(summary_df) :
                 summary_df[a].pathway_description = d =>
                   summary_df[a] = grouped[FirstWith(grouped, d)]

\* two pathway_ids described as "Unknown" have collapsed to one row
C10_Witness ==
  /\ Summarized
  /\ Len(grouped) = 2
  /\ grouped[1].pathway_description = Unknown
  /\ grouped[2].pathway_description = Unknown
  /\ Len(summary_df) = 1

====
